---- MODULE Spec2Model ----
(***************************************************************************)
(* GrowthTable (src/src/scripts/main.js): a table whose rows and columns   *)
(* are grown and shrunk by four buttons, within [minDimCount, maxDimCount],*)
(* the buttons' disabled attribute following the table's size.             *)
(*                                                                         *)
(* The table body is a sequence of rows, a row a sequence of cells, a cell *)
(* its innerHTML.  Spec is the program as the page runs it: construction   *)
(* and the four click listeners.  SpecOps drives the private operations    *)
(* #changeRows / #changeCols / #syncCurrentState directly, with any delta. *)
(***************************************************************************)
EXTENDS Integers, Sequences, FiniteSets, TLC

VARIABLES
  phase,          \* "init" before new GrowthTable(...), then "ready" or "failed"
  error,          \* message of the Error thrown by the constructor, or "none"
  resolved,       \* the selectors that document.querySelector resolves
  minDimCount,    \* constructor argument
  maxDimCount,    \* constructor argument
  _minDimCount,   \* instance field
  _maxDimCount,   \* instance field
  _currentState,  \* instance field: the four capability flags
  hasBody,        \* the table has a tBodies[0]
  grid,           \* tbody.rows: sequence of rows, each a sequence of innerHTML
  disabled,       \* disabled attribute of each button
  listeners,      \* click listeners registered on each button: set of <<dx, dy>>
  dom0,           \* history: the DOM as it was before construction
  pre,            \* history: tbody.rows before the last operation
  last            \* history: the last operation and its argument

vars == <<phase, error, resolved, minDimCount, maxDimCount, _minDimCount,
          _maxDimCount, _currentState, hasBody, grid, disabled, listeners,
          dom0, pre, last>>

---------------------------------------------------------------------------
(* Bounds of the model *)

MaxInitRows == 2
MaxInitCols == 2
MaxDimValue == 3
MaxDelta == 2

(* Program constants *)

DefaultMinDimCount == 2
DefaultMaxDimCount == 10

(* innerHTML of a cell is opaque to the program: it is only copied.  The    *)
(* cells of the initial table carry pairwise distinct contents, so that    *)
(* every copy can be traced to its origin; the empty string is 0.          *)
EmptyContent == 0
CellContent(i, j) == i * (MaxInitCols + 1) + j

Buttons == {"_addRowBtn", "_remRowBtn", "_addColBtn", "_remColBtn"}
Elements == {"_field"} \cup Buttons

DimValues == 0 .. MaxDimValue
OpsBoundsPairs == DimValues \X DimValues
BoundsPairs == OpsBoundsPairs
               \cup {<<DefaultMinDimCount, DefaultMaxDimCount>>}

SeqsUpTo(S, n) == UNION {[1..m -> S] : m \in 0..n}
InitShapes == SeqsUpTo(0..MaxInitCols, MaxInitRows)
InitGrid(shape) ==
  [i \in 1..Len(shape) |-> [j \in 1..shape[i] |-> CellContent(i, j)]]
InitGrids == {InitGrid(shape) : shape \in InitShapes}

Abs(n) == IF n < 0 THEN 0 - n ELSE n
Min(a, b) == IF a < b THEN a ELSE b
Max(a, b) == IF a > b THEN a ELSE b

---------------------------------------------------------------------------
(* Field initialisers *)

NullState == [canAddX |-> "null", canRemX |-> "null",
              canAddY |-> "null", canRemY |-> "null"]

(* #syncCurrentState: the flags computed from the rows *)

RowCount(rows) == Len(rows)
ColCount(rows) == IF Len(rows) = 0 THEN 0 ELSE Len(rows[1])

SyncCurrentStateStrict(rows, minD, maxD) ==
  [canAddY |-> ~(RowCount(rows) > maxD),
   canRemY |-> ~(RowCount(rows) <= minD),
   canAddX |-> ~(ColCount(rows) >= maxD),
   canRemX |-> ~(ColCount(rows) <= minD)]

SyncCurrentStateLoose(rows, minD, maxD) ==
  [canAddY |-> ~(RowCount(rows) >= maxD),
   canRemY |-> ~(RowCount(rows) <= minD),
   canAddX |-> ~(ColCount(rows) > maxD),
   canRemX |-> ~(ColCount(rows) < minD)]

SyncCurrentStateCopyPaste(rows, minD, maxD) ==
  [canAddY |-> ~(RowCount(rows) >= maxD),
   canRemY |-> ~(RowCount(rows) <= maxD),
   canAddX |-> ~(ColCount(rows) >= maxD),
   canRemX |-> ~(ColCount(rows) <= minD)]

SyncCurrentState(rows, minD, maxD) ==
  [canAddY |-> ~(RowCount(rows) >= maxD),
   canRemY |-> ~(RowCount(rows) <= minD),
   canAddX |-> ~(ColCount(rows) >= maxD),
   canRemX |-> ~(ColCount(rows) <= minD)]

(* #syncCurrentState: the flags applied to the buttons *)

ButtonStates(state) ==
  [b \in Buttons |->
     CASE b = "_addRowBtn" -> ~state.canAddY
       [] b = "_remRowBtn" -> ~state.canRemY
       [] b = "_addColBtn" -> ~state.canAddX
       [] b = "_remColBtn" -> ~state.canRemX]

---------------------------------------------------------------------------
(* #changeRows *)

CopyCellsBlank(refRow) == [j \in 1..Len(refRow) |-> EmptyContent]

CopyCells(refRow) == [j \in 1..Len(refRow) |-> refRow[j]]

RECURSIVE AddRowsOvershoot(_, _, _, _)
AddRowsOvershoot(rows, refRow, n, maxD) ==
  IF n <= 0 THEN rows
  ELSE IF Len(rows) > maxD THEN rows
  ELSE AddRowsOvershoot(Append(rows, CopyCells(refRow)), refRow, n - 1, maxD)

RECURSIVE AddRows(_, _, _, _)
AddRows(rows, refRow, n, maxD) ==
  IF n <= 0 THEN rows
  ELSE IF Len(rows) >= maxD THEN rows
  ELSE AddRows(Append(rows, CopyCells(refRow)), refRow, n - 1, maxD)

RECURSIVE RemoveRowsFromFront(_, _, _)
RemoveRowsFromFront(rows, n, minD) ==
  IF n <= 0 THEN rows
  ELSE IF Len(rows) <= minD THEN rows
  ELSE RemoveRowsFromFront(SubSeq(rows, 2, Len(rows)), n - 1, minD)

RECURSIVE RemoveRows(_, _, _)
RemoveRows(rows, n, minD) ==
  IF n <= 0 THEN rows
  ELSE IF Len(rows) <= minD THEN rows
  ELSE RemoveRows(SubSeq(rows, 1, Len(rows) - 1), n - 1, minD)

ChangeRowsNoTemplate(rows, delta, minD, maxD) ==
  IF delta > 0
  THEN AddRows(rows, IF Len(rows) = 0 THEN <<>> ELSE rows[Len(rows)],
               delta, maxD)
  ELSE RemoveRows(rows, Abs(delta), minD)

ChangeRows(rows, delta, minD, maxD) ==
  IF delta > 0
  THEN IF Len(rows) = 0 THEN rows
       ELSE AddRows(rows, rows[Len(rows)], delta, maxD)
  ELSE RemoveRows(rows, Abs(delta), minD)

(* #changeCols *)

AddCellFromFirst(row, maxD) ==
  IF Len(row) >= maxD THEN row
  ELSE Append(row, IF Len(row) = 0 THEN EmptyContent ELSE row[1])

AddCellOvershoot(row, maxD) ==
  IF Len(row) > maxD THEN row
  ELSE Append(row, IF Len(row) = 0 THEN EmptyContent ELSE row[Len(row)])

AddCell(row, maxD) ==
  IF Len(row) >= maxD THEN row
  ELSE Append(row, IF Len(row) = 0 THEN EmptyContent ELSE row[Len(row)])

RemoveCellFirst(row, minD) ==
  IF Len(row) <= minD THEN row
  ELSE SubSeq(row, 2, Len(row))

RemoveCell(row, minD) ==
  IF Len(row) <= minD THEN row
  ELSE SubSeq(row, 1, Len(row) - 1)

ChangeColsNoBound(rows, delta, minD, maxD) ==
  [i \in 1..Len(rows) |->
     IF delta > 0 THEN Append(rows[i], EmptyContent)
     ELSE SubSeq(rows[i], 1, Len(rows[i]) - 1)]

ChangeColsFirstRow(rows, delta, minD, maxD) ==
  [i \in 1..Len(rows) |->
     IF i > 1 THEN rows[i]
     ELSE IF delta > 0 THEN AddCell(rows[i], maxD)
     ELSE RemoveCell(rows[i], minD)]

ChangeCols(rows, delta, minD, maxD) ==
  [i \in 1..Len(rows) |->
     IF delta > 0 THEN AddCell(rows[i], maxD)
     ELSE RemoveCell(rows[i], minD)]

---------------------------------------------------------------------------
(* clickHandler(dx, dy): the listener it returns *)

ClickHandlerNoSync(dx, dy) ==
  LET afterRows == IF dy # 0
                   THEN ChangeRows(grid, dy, _minDimCount, _maxDimCount)
                   ELSE grid
      afterCols == IF dx # 0
                   THEN ChangeCols(afterRows, dx, _minDimCount, _maxDimCount)
                   ELSE afterRows
  IN /\ grid' = afterCols
     /\ hasBody' = TRUE
     /\ UNCHANGED <<_currentState, disabled>>

ClickHandler(dx, dy) ==
  LET afterRows == IF dy # 0
                   THEN ChangeRows(grid, dy, _minDimCount, _maxDimCount)
                   ELSE grid
      afterCols == IF dx # 0
                   THEN ChangeCols(afterRows, dx, _minDimCount, _maxDimCount)
                   ELSE afterRows
      state == SyncCurrentState(afterCols, _minDimCount, _maxDimCount)
  IN /\ grid' = afterCols
     /\ hasBody' = TRUE
     /\ _currentState' = state
     /\ disabled' = ButtonStates(state)

(* The listeners the constructor registers *)

RegisteredBothAxes ==
  [b \in Buttons |->
     CASE b = "_addRowBtn" -> {<<1, 1>>}
       [] b = "_remRowBtn" -> {<<0, -1>>}
       [] b = "_addColBtn" -> {<<1, 0>>}
       [] b = "_remColBtn" -> {<<-1, -1>>}]

Registered ==
  [b \in Buttons |->
     CASE b = "_addRowBtn" -> {<<0, 1>>}
       [] b = "_remRowBtn" -> {<<0, -1>>}
       [] b = "_addColBtn" -> {<<1, 0>>}
       [] b = "_remColBtn" -> {<<-1, 0>>}]

---------------------------------------------------------------------------
(* The page before the script runs *)

Init ==
  /\ phase = "init"
  /\ error = "none"
  /\ resolved \in SUBSET Elements
  /\ \E p \in BoundsPairs : minDimCount = p[1] /\ maxDimCount = p[2]
  /\ _minDimCount = DefaultMinDimCount
  /\ _maxDimCount = DefaultMaxDimCount
  /\ _currentState = NullState
  /\ grid \in InitGrids
  /\ hasBody \in BOOLEAN
  /\ (~hasBody => grid = <<>>)
  /\ disabled \in {[b \in Buttons |-> FALSE], [b \in Buttons |-> TRUE]}
  /\ listeners = [b \in Buttons |-> {}]
  /\ dom0 = [grid |-> grid, hasBody |-> hasBody, disabled |-> disabled]
  /\ pre = grid
  /\ last = [op |-> "none", k |-> 0]

(* constructor *)

ConstructFieldMissing ==
  /\ phase = "init"
  /\ "_field" \notin resolved
  /\ phase' = "failed"
  /\ error' = "Table field element is not found in DOM"
  /\ UNCHANGED <<resolved, minDimCount, maxDimCount, _minDimCount,
                 _maxDimCount, _currentState, hasBody, grid, disabled,
                 listeners, dom0, pre, last>>

ConstructControlsMissingPartial ==
  /\ phase = "init"
  /\ "_field" \in resolved
  /\ ~(Buttons \subseteq resolved)
  /\ phase' = "failed"
  /\ error' = "Some of control elements are not found in DOM"
  /\ listeners' = [b \in Buttons |->
                     IF b \in resolved THEN Registered[b] ELSE {}]
  /\ UNCHANGED <<resolved, minDimCount, maxDimCount, _minDimCount,
                 _maxDimCount, _currentState, hasBody, grid, disabled,
                 dom0, pre, last>>

ConstructControlsMissing ==
  /\ phase = "init"
  /\ "_field" \in resolved
  /\ ~(Buttons \subseteq resolved)
  /\ phase' = "failed"
  /\ error' = "Some of control elements are not found in DOM"
  /\ UNCHANGED <<resolved, minDimCount, maxDimCount, _minDimCount,
                 _maxDimCount, _currentState, hasBody, grid, disabled,
                 listeners, dom0, pre, last>>

ConstructOkValidating ==
  /\ phase = "init"
  /\ Elements \subseteq resolved
  /\ IF minDimCount < 1 \/ maxDimCount < minDimCount
     THEN /\ phase' = "failed"
          /\ error' = "InvalidConfiguration"
          /\ UNCHANGED <<_minDimCount, _maxDimCount, listeners, hasBody,
                         _currentState, disabled>>
     ELSE /\ phase' = "ready"
          /\ error' = "none"
          /\ _minDimCount' = minDimCount
          /\ _maxDimCount' = maxDimCount
          /\ listeners' = Registered
          /\ hasBody' = TRUE
          /\ _currentState' = SyncCurrentState(grid, minDimCount, maxDimCount)
          /\ disabled' = ButtonStates(_currentState')
  /\ UNCHANGED <<resolved, minDimCount, maxDimCount, grid, dom0, pre, last>>

ConstructOk ==
  /\ phase = "init"
  /\ Elements \subseteq resolved
  /\ phase' = "ready"
  /\ error' = "none"
  /\ _minDimCount' = minDimCount
  /\ _maxDimCount' = maxDimCount
  /\ listeners' = Registered
  /\ hasBody' = TRUE
  /\ _currentState' = SyncCurrentState(grid, minDimCount, maxDimCount)
  /\ disabled' = ButtonStates(_currentState')
  /\ UNCHANGED <<resolved, minDimCount, maxDimCount, grid, dom0, pre, last>>

(* A click on a button runs the listener registered on it *)

Click(b) ==
  /\ phase = "ready"
  /\ \E h \in listeners[b] : ClickHandler(h[1], h[2])
  /\ pre' = grid
  /\ last' = [op |-> b, k |-> 1]
  /\ UNCHANGED <<phase, error, resolved, minDimCount, maxDimCount,
                 _minDimCount, _maxDimCount, listeners, dom0>>

ClickAddRow == Click("_addRowBtn")
ClickRemRow == Click("_remRowBtn")
ClickAddCol == Click("_addColBtn")
ClickRemCol == Click("_remColBtn")

Next ==
  \/ ConstructFieldMissing
  \/ ConstructControlsMissing
  \/ ConstructOk
  \/ ClickAddRow
  \/ ClickRemRow
  \/ ClickAddCol
  \/ ClickRemCol

Spec == Init /\ [][Next]_vars

---------------------------------------------------------------------------
(* The private operations called directly on a constructed instance, with  *)
(* any delta.  A constructed instance is what ConstructOk leaves.          *)

InitOps ==
  /\ phase = "ready"
  /\ error = "none"
  /\ resolved = Elements
  /\ \E p \in OpsBoundsPairs : minDimCount = p[1] /\ maxDimCount = p[2]
  /\ _minDimCount = minDimCount
  /\ _maxDimCount = maxDimCount
  /\ grid \in InitGrids
  /\ hasBody = TRUE
  /\ _currentState = SyncCurrentState(grid, minDimCount, maxDimCount)
  /\ disabled = ButtonStates(_currentState)
  /\ listeners = Registered
  /\ dom0 = [grid |-> grid, hasBody |-> hasBody, disabled |-> disabled]
  /\ pre = grid
  /\ last = [op |-> "none", k |-> 0]

Operation(name, k, rows) ==
  /\ phase = "ready"
  /\ grid' = rows
  /\ pre' = grid
  /\ last' = [op |-> name, k |-> k]
  /\ UNCHANGED <<phase, error, resolved, minDimCount, maxDimCount,
                 _minDimCount, _maxDimCount, _currentState, hasBody,
                 disabled, listeners, dom0>>

GrowRows ==
  \E k \in 1..MaxDelta :
    Operation("growRows", k, ChangeRows(grid, k, _minDimCount, _maxDimCount))

ShrinkRows ==
  \E k \in 1..MaxDelta :
    Operation("shrinkRows", k,
              ChangeRows(grid, 0 - k, _minDimCount, _maxDimCount))

GrowCols ==
  \E k \in 1..MaxDelta :
    Operation("growCols", k, ChangeCols(grid, k, _minDimCount, _maxDimCount))

ShrinkCols ==
  \E k \in 1..MaxDelta :
    Operation("shrinkCols", k,
              ChangeCols(grid, 0 - k, _minDimCount, _maxDimCount))

RefreshCapabilitiesSeedsRow ==
  /\ phase = "ready"
  /\ _currentState' = SyncCurrentState(grid, _minDimCount, _maxDimCount)
  /\ disabled' = ButtonStates(_currentState')
  /\ hasBody' = TRUE
  /\ grid' = IF Len(grid) = 0 THEN << <<>> >> ELSE grid
  /\ pre' = grid
  /\ last' = [op |-> "refreshCapabilities", k |-> 0]
  /\ UNCHANGED <<phase, error, resolved, minDimCount, maxDimCount,
                 _minDimCount, _maxDimCount, listeners, dom0>>

RefreshCapabilities ==
  /\ phase = "ready"
  /\ _currentState' = SyncCurrentState(grid, _minDimCount, _maxDimCount)
  /\ disabled' = ButtonStates(_currentState')
  /\ hasBody' = TRUE
  /\ pre' = grid
  /\ last' = [op |-> "refreshCapabilities", k |-> 0]
  /\ UNCHANGED <<phase, error, resolved, minDimCount, maxDimCount,
                 _minDimCount, _maxDimCount, grid, listeners, dom0>>

NextOps ==
  \/ GrowRows
  \/ ShrinkRows
  \/ GrowCols
  \/ ShrinkCols
  \/ RefreshCapabilities

SpecOps == InitOps /\ [][NextOps]_vars

---------------------------------------------------------------------------
(* The page, with #syncCurrentState also called on its own between the     *)
(* intents.                                                                *)

NextSync ==
  \/ Next
  \/ RefreshCapabilities

SpecSync == Init /\ [][NextSync]_vars

---------------------------------------------------------------------------
(* The page when the buttons are real controls: a disabled button raises   *)
(* no click.                                                               *)

EnabledClick(b) ==
  /\ ~disabled[b]
  /\ Click(b)

EnabledClickAddRow == EnabledClick("_addRowBtn")
EnabledClickRemRow == EnabledClick("_remRowBtn")
EnabledClickAddCol == EnabledClick("_addColBtn")
EnabledClickRemCol == EnabledClick("_remColBtn")

NextEnabled ==
  \/ ConstructFieldMissing
  \/ ConstructControlsMissing
  \/ ConstructOk
  \/ EnabledClickAddRow
  \/ EnabledClickRemRow
  \/ EnabledClickAddCol
  \/ EnabledClickRemCol

SpecEnabled == Init /\ [][NextEnabled]_vars

---------------------------------------------------------------------------
(* Properties *)

IsRect(rows) == \A i, j \in 1..Len(rows) : Len(rows[i]) = Len(rows[j])
AllRowsHave(rows, n) == \A i \in 1..Len(rows) : Len(rows[i]) = n
R == Len(grid)
C == IF Len(grid) = 0 THEN 0 ELSE Len(grid[1])
PreR == Len(pre)
PreC == IF Len(pre) = 0 THEN 0 ELSE Len(pre[1])
RowIntents == {"_addRowBtn", "_remRowBtn"}
ColIntents == {"_addColBtn", "_remColBtn"}

(* C1: at rest (after construction and after every intent) each button is  *)
(* disabled exactly when its capability, computed from the current grid,   *)
(* is false.                                                               *)
C1_AffordancesFollowGrid ==
  phase = "ready" =>
    /\ disabled["_addRowBtn"] = ~(R < _maxDimCount)
    /\ disabled["_remRowBtn"] = ~(R > _minDimCount)
    /\ disabled["_addColBtn"] = ~(C < _maxDimCount)
    /\ disabled["_remColBtn"] = ~(C > _minDimCount)

C1_Witness ==
  /\ phase = "ready"
  /\ last.op = "_addRowBtn"
  /\ PreR < R
  /\ R = _maxDimCount
  /\ disabled["_addRowBtn"]
  /\ ~dom0.disabled["_addRowBtn"]
  /\ ~disabled["_remRowBtn"]

(* C2: refreshCapabilities returns canGrowRows = R < maxDim, canShrinkRows *)
(* = R > minDim, canGrowCols = C < maxDim, canShrinkCols = C > minDim, C   *)
(* being the first row's cell count or 0 without rows, whatever the flags  *)
(* were before.                                                            *)
C2_RefreshCapabilities ==
  last.op = "refreshCapabilities" =>
    _currentState = [canAddY |-> R < _maxDimCount,
                     canRemY |-> R > _minDimCount,
                     canAddX |-> C < _maxDimCount,
                     canRemX |-> C > _minDimCount]

C2_Witness ==
  /\ last.op = "refreshCapabilities"
  /\ Len(dom0.grid) < _maxDimCount
  /\ R = _maxDimCount
  /\ ~_currentState.canAddY
  /\ _currentState.canRemY
  /\ C < _maxDimCount
  /\ _currentState.canAddX

(* C3: with minDim >= 1 and minDim <= R <= maxDim, growRows(k) leaves      *)
(* exactly min(R + k, maxDim) rows.                                        *)
C3_GrowRowsCount ==
  (/\ last.op = "growRows"
   /\ _minDimCount >= 1
   /\ _minDimCount <= PreR
   /\ PreR <= _maxDimCount)
  => R = Min(PreR + last.k, _maxDimCount)

C3_Witness ==
  /\ last.op = "growRows"
  /\ _minDimCount >= 1
  /\ _minDimCount <= PreR
  /\ PreR < _maxDimCount
  /\ PreR + last.k > _maxDimCount
  /\ R = _maxDimCount

(* C4: with minDim <= R <= maxDim, shrinkRows(k) leaves exactly            *)
(* max(R - k, minDim) rows, which are the leading rows of the grid before. *)
C4_ShrinkRowsCount ==
  (/\ last.op = "shrinkRows"
   /\ _minDimCount <= PreR
   /\ PreR <= _maxDimCount)
  => /\ R = Max(PreR - last.k, _minDimCount)
     /\ grid = SubSeq(pre, 1, R)

C4_Witness ==
  /\ last.op = "shrinkRows"
  /\ PreR <= _maxDimCount
  /\ PreR > _minDimCount
  /\ PreR - last.k < _minDimCount
  /\ R = _minDimCount
  /\ R >= 1
  /\ pre[1] # pre[PreR]

(* C5: an operation invoked at its bound changes nothing in the grid, and  *)
(* the capability flag of that operation is false: growRows at R = maxDim, *)
(* shrinkRows at R = minDim, growCols when every row has C = maxDim cells, *)
(* shrinkCols when every row has C = minDim cells.                         *)
C5_NoOpAtBound ==
  LET flags == SyncCurrentState(grid, _minDimCount, _maxDimCount)
  IN /\ (last.op = "growRows" /\ PreR = _maxDimCount)
          => (grid = pre /\ ~flags.canAddY)
     /\ (last.op = "shrinkRows" /\ PreR = _minDimCount)
          => (grid = pre /\ ~flags.canRemY)
     /\ (last.op = "growCols" /\ PreC = _maxDimCount
           /\ AllRowsHave(pre, _maxDimCount))
          => (grid = pre /\ ~flags.canAddX)
     /\ (last.op = "shrinkCols" /\ PreC = _minDimCount
           /\ AllRowsHave(pre, _minDimCount))
          => (grid = pre /\ ~flags.canRemX)

C5_Witness ==
  /\ last.op = "shrinkCols"
  /\ last.k = 2
  /\ PreR = 3
  /\ _minDimCount = 2
  /\ AllRowsHave(pre, 2)
  /\ grid = pre

(* C6: every row appended by growRows(k) has the cells, position by        *)
(* position, of the row that was last when it was inserted, hence of the   *)
(* last row of the grid before the call.                                   *)
C6_AppendedRowsCopyLast ==
  last.op = "growRows" =>
    \A i \in (PreR + 1)..R :
      /\ grid[i] = grid[i - 1]
      /\ grid[i] = pre[PreR]

C6_Witness ==
  /\ last.op = "growRows"
  /\ last.k = 2
  /\ PreR = 1
  /\ R = 3
  /\ Len(pre[1]) = 2
  /\ pre[1][1] # pre[1][2]
  /\ grid[2] = pre[1]
  /\ grid[3] = pre[1]

(* C7: a grid that is rectangular at construction is rectangular after any *)
(* sequence of add-row, remove-row, add-column, remove-column intents.     *)
C7_Rectangular ==
  (phase = "ready" /\ IsRect(dom0.grid)) => IsRect(grid)

C7_Witness ==
  /\ phase = "ready"
  /\ IsRect(dom0.grid)
  /\ Len(dom0.grid) = 2
  /\ R > 2
  /\ C > Len(dom0.grid[1])
  /\ last.op = "_remColBtn"
  /\ grid # pre

(* C8: a row intent leaves the cell count of every surviving row as it     *)
(* was, and a column intent leaves the row count as it was.                *)
C8_SingleAxis ==
  /\ last.op \in RowIntents =>
       \A i \in 1..Min(PreR, R) : Len(grid[i]) = Len(pre[i])
  /\ last.op \in ColIntents => R = PreR

C8_Witness ==
  /\ last.op = "_addColBtn"
  /\ R = PreR
  /\ R >= 2
  /\ \A i \in 1..R : Len(grid[i]) = Len(pre[i]) + 1

(* C9: construction fails when the table or one of the four buttons does   *)
(* not resolve, and then no listener is registered, no button's disabled   *)
(* attribute is changed and the table is as it was.                        *)
C9_MissingElementFails ==
  (phase # "init" /\ ~(Elements \subseteq resolved)) =>
    /\ phase = "failed"
    /\ error # "none"
    /\ listeners = [b \in Buttons |-> {}]
    /\ disabled = dom0.disabled
    /\ grid = dom0.grid
    /\ hasBody = dom0.hasBody
    /\ _currentState = NullState

C9_Witness ==
  /\ phase = "failed"
  /\ "_field" \in resolved
  /\ "_addRowBtn" \in resolved
  /\ "_remColBtn" \notin resolved
  /\ ~hasBody
  /\ listeners["_addRowBtn"] = {}

(* C10, as stated: construction fails whenever minDim < 1, maxDim < minDim *)
(* or the grid is not rectangular.                                         *)
C10_InvalidConfigurationFails ==
  (/\ phase # "init"
   /\ \/ minDimCount < 1
      \/ maxDimCount < minDimCount
      \/ ~IsRect(dom0.grid))
  => phase = "failed"

(* C10, amended: the constructor checks neither the bounds nor the shape   *)
(* of the grid; whenever the table and the four buttons resolve it         *)
(* succeeds with the bounds as given, and its only failures are the two    *)
(* missing-element errors.                                                 *)
C10_NoConfigurationCheck ==
  /\ (phase # "init" /\ Elements \subseteq resolved) =>
       /\ phase = "ready"
       /\ error = "none"
       /\ _minDimCount = minDimCount
       /\ _maxDimCount = maxDimCount
       /\ listeners = Registered
  /\ phase = "failed" =>
       /\ ~(Elements \subseteq resolved)
       /\ error \in {"Table field element is not found in DOM",
                     "Some of control elements are not found in DOM"}

C10_Witness ==
  /\ phase = "ready"
  /\ maxDimCount < minDimCount
  /\ ~IsRect(dom0.grid)
  /\ last.op = "_addColBtn"
  /\ grid # pre

(* C11: on a grid without rows growRows(k) changes nothing, and            *)
(* refreshCapabilities takes the column count as 0: canGrowCols is         *)
(* 0 < maxDim and canShrinkCols is 0 > minDim, false for every minDim >= 0.*)
C11_ZeroRows ==
  LET flags == SyncCurrentState(grid, _minDimCount, _maxDimCount)
  IN /\ (last.op = "growRows" /\ PreR = 0) =>
          /\ grid = pre
          /\ R = 0
          /\ flags.canAddX = (0 < _maxDimCount)
          /\ flags.canRemX = (0 > _minDimCount)
          /\ (_minDimCount >= 0 => ~flags.canRemX)
     /\ (last.op = "refreshCapabilities" /\ R = 0) =>
          /\ _currentState.canAddX = (0 < _maxDimCount)
          /\ _currentState.canRemX = (0 > _minDimCount)
          /\ (_minDimCount >= 0 => ~_currentState.canRemX)

C11_Witness ==
  /\ last.op = "growRows"
  /\ last.k = 2
  /\ PreR = 0
  /\ R = 0
  /\ _maxDimCount >= 2
  /\ _minDimCount >= 1

(* C12: refreshCapabilities never changes the rows of the grid, also when  *)
(* the table has no body yet (the constructor's call), and a second call   *)
(* with no resize in between leaves the four flags and the four disabled   *)
(* attributes as the first call set them.                                  *)
C12_RefreshPureIdempotent ==
  [][/\ (last'.op = "refreshCapabilities" /\ last' # last) => grid' = grid
     /\ (phase = "init" /\ phase' = "ready") => grid' = grid
     /\ (last.op = "refreshCapabilities" /\ last'.op = "refreshCapabilities")
          => (/\ grid' = grid
              /\ _currentState' = _currentState
              /\ disabled' = disabled)]_vars

C12_Witness ==
  /\ phase = "ready"
  /\ ~dom0.hasBody
  /\ hasBody
  /\ last.op = "refreshCapabilities"
  /\ grid = dom0.grid
  /\ grid = pre
  /\ _currentState = SyncCurrentState(grid, _minDimCount, _maxDimCount)

(* C13: growCols(count) gives every row whose cell count is below maxDim   *)
(* exactly count new cells (so that, for count > 1, such a row can end     *)
(* above maxDim).                                                          *)
C13_GrowColsAddsCount ==
  last.op = "growCols" =>
    \A i \in 1..PreR :
      Len(pre[i]) < _maxDimCount => Len(grid[i]) = Len(pre[i]) + last.k

(* C14: growCols leaves a row with maxDim cells or more as it was; every   *)
(* other row keeps its cells and gains new ones at the end, each with the  *)
(* content of that row's own last cell before the call, or the empty       *)
(* content when the row had no cell.                                       *)
C14_GrowColsPerRow ==
  last.op = "growCols" =>
    /\ R = PreR
    /\ \A i \in 1..PreR :
         IF Len(pre[i]) >= _maxDimCount
         THEN grid[i] = pre[i]
         ELSE /\ Len(grid[i]) > Len(pre[i])
              /\ SubSeq(grid[i], 1, Len(pre[i])) = pre[i]
              /\ \A j \in (Len(pre[i]) + 1)..Len(grid[i]) :
                   grid[i][j] = IF Len(pre[i]) = 0 THEN EmptyContent
                                ELSE pre[i][Len(pre[i])]

C14_Witness ==
  /\ last.op = "growCols"
  /\ last.k = 2
  /\ PreR = 2
  /\ Len(pre[1]) = 2
  /\ _maxDimCount = 2
  /\ grid[1] = pre[1]
  /\ Len(pre[2]) = 1
  /\ pre[2][1] # pre[1][2]
  /\ grid[2] = <<pre[2][1], pre[2][1]>>

(* C15: shrinkCols(count) leaves a row with minDim cells or fewer as it    *)
(* was, and takes min(count, cell count) trailing cells from every other   *)
(* row.                                                                    *)
C15_ShrinkColsRemovesCount ==
  last.op = "shrinkCols" =>
    /\ R = PreR
    /\ \A i \in 1..PreR :
         IF Len(pre[i]) <= _minDimCount
         THEN grid[i] = pre[i]
         ELSE grid[i] = SubSeq(pre[i], 1,
                               Len(pre[i]) - Min(last.k, Len(pre[i])))

InBounds(rows, minD, maxD) ==
  /\ minD <= Len(rows)
  /\ Len(rows) <= maxD
  /\ \A i \in 1..Len(rows) : minD <= Len(rows[i]) /\ Len(rows[i]) <= maxD
CellCounts(rows) == {Len(rows[i]) : i \in 1..Len(rows)}

(* C16: a grid whose row count and cell counts are within [minDim, maxDim] *)
(* at construction keeps them there under every sequence of intents; in    *)
(* general the row count stays within [min(initial, minDim),               *)
(* max(initial, maxDim)], every row's cell count stays within the same     *)
(* interval taken over the initial cell counts, and no intent moves the    *)
(* row count or the cell count of a surviving row further out than it was. *)
C16_BoundsPreserved ==
  phase = "ready" =>
    /\ InBounds(dom0.grid, _minDimCount, _maxDimCount)
         => InBounds(grid, _minDimCount, _maxDimCount)
    /\ Min(Len(dom0.grid), _minDimCount) <= R
    /\ R <= Max(Len(dom0.grid), _maxDimCount)
    /\ \A i \in 1..R :
         \E lo, hi \in CellCounts(dom0.grid) :
           /\ Min(lo, _minDimCount) <= Len(grid[i])
           /\ Len(grid[i]) <= Max(hi, _maxDimCount)
    /\ last.op \in Buttons =>
         /\ Min(PreR, _minDimCount) <= R
         /\ R <= Max(PreR, _maxDimCount)
         /\ \A i \in 1..Min(PreR, R) :
              /\ Min(Len(pre[i]), _minDimCount) <= Len(grid[i])
              /\ Len(grid[i]) <= Max(Len(pre[i]), _maxDimCount)

C16_Witness ==
  /\ phase = "ready"
  /\ InBounds(dom0.grid, _minDimCount, _maxDimCount)
  /\ _minDimCount < _maxDimCount
  /\ grid # dom0.grid
  /\ last.op = "_addColBtn"
  /\ grid = pre
  /\ R = _maxDimCount
  /\ AllRowsHave(grid, _maxDimCount)

IntentChangedByOne ==
  /\ last.op = "_addRowBtn" =>
       (R = PreR + 1 /\ SubSeq(grid, 1, PreR) = pre)
  /\ last.op = "_remRowBtn" =>
       (R = PreR - 1 /\ grid = SubSeq(pre, 1, R))
  /\ last.op = "_addColBtn" =>
       (R = PreR /\ \A i \in 1..R : Len(grid[i]) = Len(pre[i]) + 1)
  /\ last.op = "_remColBtn" =>
       (R = PreR /\ \A i \in 1..R : Len(grid[i]) = Len(pre[i]) - 1)
FlagsSayWouldChange ==
  /\ _currentState.canAddY
       = (ChangeRows(grid, 1, _minDimCount, _maxDimCount) # grid)
  /\ _currentState.canRemY
       = (ChangeRows(grid, -1, _minDimCount, _maxDimCount) # grid)
  /\ _currentState.canAddX
       = (ChangeCols(grid, 1, _minDimCount, _maxDimCount) # grid)
  /\ _currentState.canRemX
       = (ChangeCols(grid, -1, _minDimCount, _maxDimCount) # grid)

(* C17, as stated: starting from a non-empty rectangular grid and clicking *)
(* enabled buttons only, every click changes its dimension by exactly one, *)
(* and a flag is true exactly when its operation would change the grid.    *)
C17_EnabledIsEffectiveAnyBounds ==
  (phase = "ready" /\ Len(dom0.grid) >= 1 /\ IsRect(dom0.grid))
  => (IntentChangedByOne /\ FlagsSayWouldChange)

(* C17, amended: the same, for a resizer constructed with minDim >= 1.     *)
C17_EnabledIsEffective ==
  (/\ phase = "ready"
   /\ Len(dom0.grid) >= 1
   /\ IsRect(dom0.grid)
   /\ _minDimCount >= 1)
  => (IntentChangedByOne /\ FlagsSayWouldChange)

C17_Witness ==
  /\ phase = "ready"
  /\ Len(dom0.grid) >= 1
  /\ IsRect(dom0.grid)
  /\ _minDimCount >= 1
  /\ last.op = "_addRowBtn"
  /\ R = PreR + 1
  /\ R = _maxDimCount
  /\ disabled["_addRowBtn"]
  /\ ~disabled["_remRowBtn"]
  /\ C >= 1
  /\ ~disabled["_addColBtn"]

(* C18: an intent changes the grid at its trailing edge only: every cell   *)
(* present before and after keeps its content; add-row and add-column      *)
(* extend the grid before by rows or cells at the end, remove-row takes at *)
(* most the last row and remove-column at most the last cell of a row.     *)
C18_TrailingEdgeOnly ==
  last.op \in Buttons =>
    /\ \A i \in 1..Min(PreR, R) :
         \A j \in 1..Min(Len(pre[i]), Len(grid[i])) : grid[i][j] = pre[i][j]
    /\ last.op = "_addRowBtn" =>
         (R >= PreR /\ SubSeq(grid, 1, PreR) = pre)
    /\ last.op = "_remRowBtn" =>
         (R >= PreR - 1 /\ R <= PreR /\ grid = SubSeq(pre, 1, R))
    /\ last.op = "_addColBtn" =>
         /\ R = PreR
         /\ \A i \in 1..R : SubSeq(grid[i], 1, Len(pre[i])) = pre[i]
    /\ last.op = "_remColBtn" =>
         /\ R = PreR
         /\ \A i \in 1..R :
              /\ Len(grid[i]) >= Len(pre[i]) - 1
              /\ grid[i] = SubSeq(pre[i], 1, Len(grid[i]))

C18_Witness ==
  /\ last.op = "_remColBtn"
  /\ R = 2
  /\ Len(pre[1]) = 2
  /\ pre[1][1] # pre[1][2]
  /\ grid[1] = <<pre[1][1]>>
  /\ Len(pre[2]) = 1
  /\ grid[2] = pre[2]

(* C19: with minDim < maxDim, add-row and remove-row are never both        *)
(* disabled and add-column and remove-column are never both disabled; the  *)
(* two buttons of an axis are both disabled only when                      *)
(* maxDim <= dimension <= minDim.                                          *)
C19_NoDeadEnd ==
  phase = "ready" =>
    /\ _minDimCount < _maxDimCount =>
         /\ ~(disabled["_addRowBtn"] /\ disabled["_remRowBtn"])
         /\ ~(disabled["_addColBtn"] /\ disabled["_remColBtn"])
    /\ (disabled["_addRowBtn"] /\ disabled["_remRowBtn"]) =>
         (_maxDimCount <= R /\ R <= _minDimCount)
    /\ (disabled["_addColBtn"] /\ disabled["_remColBtn"]) =>
         (_maxDimCount <= C /\ C <= _minDimCount)

C19_Witness ==
  /\ phase = "ready"
  /\ _minDimCount < _maxDimCount
  /\ last.op = "_addRowBtn"
  /\ R = PreR + 1
  /\ R = _maxDimCount
  /\ disabled["_addRowBtn"]
  /\ ~disabled["_remRowBtn"]
  /\ C = _minDimCount
  /\ disabled["_remColBtn"]
  /\ ~disabled["_addColBtn"]

====
